---- MODULE Spec2Model ----
(***************************************************************************)
(* Model of the session state and security-analysis pipeline of            *)
(* server/python_microservice/session_monitor.py (class SessionMonitor).   *)
(*                                                                         *)
(* The service runs on one asyncio event loop: a coroutine runs without    *)
(* interruption until it awaits real I/O.  The awaits that suspend are     *)
(* insert_one in store_event (line 239) and insert_one in store_alert      *)
(* (line 384); update_session_state, the rule checks of analyze_security,  *)
(* _calculate_ml_risk_score, publish_event and cleanup_expired_sessions    *)
(* contain no suspending await and are atomic.  Each action below is one   *)
(* such uninterrupted stretch of code.                                     *)
(*                                                                         *)
(* Time is the wall clock in whole seconds.  Risk scores and scorer        *)
(* margins are fixed-point numbers in tenths (8 stands for 0.8).           *)
(***************************************************************************)
EXTENDS Integers, Sequences, FiniteSets, TLC

\* ------------------------------------------------------------------------
\* Program constants
\* ------------------------------------------------------------------------
TAB_SWITCH_THRESHOLD == 3

INACTIVITY_THRESHOLD == 30

HEARTBEAT_TIMEOUT == 10

\* 0.7, in tenths
SUSPICIOUS_SCORE_THRESHOLD == 7

\* timedelta(minutes=1), in seconds
TIME_WINDOW == 60

\* the literal 300 of cleanup_expired_sessions
EXPIRY_SECONDS == 300

\* the literal 0.8 of analyze_security, in tenths
RISK_FLOOR == 8

\* Python's None for last_tab_switch and for an absent session reference
None == -1

EventType ==
    {"tab_switch", "inactivity", "heartbeat", "session_start", "session_end",
     "screen_lock", "device_change", "copy_paste", "right_click",
     "keyboard_shortcut"}

SecurityLevel == {"low", "medium", "high", "critical"}

\* ------------------------------------------------------------------------
\* Bounds of the explored inputs
\* ------------------------------------------------------------------------
\* events submitted in one run, delivered one at a time
MaxEvents == 4

\* events submitted in one run of the concurrent scenarios
ConcMaxEvents == 3

\* process_event executions suspended at the same time
MaxInFlight == 2

\* events submitted in one run of the tab-switch scenarios
TabMaxEvents == 6

\* events submitted in one run of the reaper scenarios
ReapMaxEvents == 3

\* events submitted in one run of the scenarios with failing collaborators
FailMaxEvents == 4

\* events submitted in one run of the scenarios of the reaper racing events
RaceMaxEvents == 3

\* events submitted in one run of the scorer scenarios
ScoreMaxEvents == 4

\* events submitted in one run of the list-sessions scenarios
ListMaxEvents == 3

\* calls of get_all_sessions in one run
MaxListings == 1

\* events submitted in one run of the raw-event scenarios
RawMaxEvents == 3

\* raw outputs of the scorer's decision_function, in tenths, and a failed call
Margins == {-20, -2, 3}

\* what one call of decision_function does: it returns a margin or it raises
ScorerOutcomes ==
    {[raised |-> FALSE, score |-> m] : m \in Margins}
        \cup {[raised |-> TRUE, score |-> 0]}

\* margins far outside and at the edges of the range the conversion maps
\* into [0, 1]
WideMargins == {-20, -6, 0, 6, 20}

WideOutcomes ==
    {[raised |-> FALSE, score |-> m] : m \in WideMargins}
        \cup {[raised |-> TRUE, score |-> 0]}

\* a scorer call that flags the event and one that does not
TabOutcomes == {o \in ScorerOutcomes : o.score \in {-20, 3}}

\* metadata.duration values of inactivity events
Durations == {30, 31}

Users == {"u1"}

\* a required key that the raw event (the JSON object received) does not have
Missing == "<absent>"

\* what the calls of one step to MongoDB and Redis do: insert_one returns
\* (insert) or raises, publish returns (publish) or raises
AllOk == {[insert |-> TRUE, publish |-> TRUE]}

AnyIo == [insert : BOOLEAN, publish : BOOLEAN]

VARIABLES
    now,              \* the wall clock (datetime.utcnow(), time.time())
    ml_model,         \* self.ml_model: "none" or "model"
    active_sessions,  \* self.active_sessions: session_id -> dict object
    heap,             \* the session dict objects, by object identity
    inflight,         \* the suspended process_event executions
    nextSeq,          \* arrival number given to the next submitted event
    history,          \* per dict object: the events applied to it so far
    submitted,        \* per session id: the events submitted so far
    last,             \* the step taken last, with the alerts it created
    order,            \* the keys of self.active_sessions in insertion order
    listing           \* the execution of get_all_sessions, if one is under way

vars ==
    <<now, ml_model, active_sessions, heap, inflight, nextSeq, history, submitted,
      last, order, listing>>

\* ------------------------------------------------------------------------
\* Helpers
\* ------------------------------------------------------------------------
Put(f, k, v) == [x \in DOMAIN f \cup {k} |-> IF x = k THEN v ELSE f[x]]

Restrict(f, S) == [x \in DOMAIN f \cap S |-> f[x]]

Range(f) == {f[x] : x \in DOMAIN f}

Max(a, b) == IF a >= b THEN a ELSE b

Min(a, b) == IF a <= b THEN a ELSE b

\* ------------------------------------------------------------------------
\* The boundary: receive_event and the first statement of process_event
\* ------------------------------------------------------------------------
\* C11 mutant: the event type is kept as the string received
ConstructsAnyType(user_id, session_id, event_type) ==
    /\ user_id # Missing
    /\ session_id # Missing
    /\ event_type # Missing

\* lines 199-208: SessionEvent(...) is built when the three keys are present
\* and EventType(event_data["event_type"]) finds the value in the enum; the
\* identifiers are taken as they are
Constructs(user_id, session_id, event_type) ==
    /\ user_id # Missing
    /\ session_id # Missing
    /\ event_type \in EventType

\* lines 222-223: process_event catches every exception raised in its body
\* and logs it, so none leaves process_event
ProcessEventRaises(failure) == FALSE

\* receive_event, lines 148-156, with the request model EventData (lines
\* 87-94): a request without a required key is refused before the handler
\* runs; otherwise the reply is "success" unless process_event raised
ReceiveEvent(user_id, session_id, event_type, failure) ==
    IF Missing \in {user_id, session_id, event_type}
    THEN "error"
    ELSE IF ProcessEventRaises(failure) THEN "error" ELSE "success"

\* store_event, lines 242-243: a failed insert_one is caught and logged
StoreEventRaises(inserted) == FALSE

\* C15 mutant: store_alert lets a failed insert_one propagate
StoreAlertPropagates(inserted) == ~inserted

\* store_alert, lines 387-388: a failed insert_one is caught and logged
StoreAlertRaises(inserted) == FALSE

\* publish_event, lines 419-420: a failed publish is caught and logged
PublishEventRaises(published) == FALSE

\* ------------------------------------------------------------------------
\* update_session_state (lines 245-277), on the pair S = [tbl, heap]
\* ------------------------------------------------------------------------
\* the dict literal of lines 250-259
NewSession(event) ==
    [user_id         |-> event.user_id,
     start_time      |-> event.timestamp,
     last_heartbeat  |-> event.timestamp,
     status          |-> "active",
     risk_score      |-> 0,
     event_count     |-> 0,
     tab_switches    |-> 0,
     last_tab_switch |-> None]

\* the new dict object is identified by the arrival number of its event
OnSessionStart(S, event) ==
    [tbl  |-> Put(S.tbl, event.session_id, event.seq),
     heap |-> Put(S.heap, event.seq, NewSession(event))]

\* C5 mutant: a heartbeat for an unknown id creates the entry
OnHeartbeatUpsert(S, event) ==
    IF event.session_id \in DOMAIN S.tbl
    THEN [S EXCEPT !.heap[S.tbl[event.session_id]].last_heartbeat = event.timestamp]
    ELSE [tbl  |-> Put(S.tbl, event.session_id, event.seq),
          heap |-> Put(S.heap, event.seq, NewSession(event))]

OnHeartbeat(S, event) ==
    IF event.session_id \in DOMAIN S.tbl
    THEN [S EXCEPT !.heap[S.tbl[event.session_id]].last_heartbeat = event.timestamp]
    ELSE S

\* C17 mutant: session_end deletes the entry
OnSessionEndRemoves(S, event) ==
    [tbl  |-> Restrict(S.tbl, DOMAIN S.tbl \ {event.session_id}),
     heap |-> S.heap]

OnSessionEnd(S, event) ==
    IF event.session_id \in DOMAIN S.tbl
    THEN [S EXCEPT !.heap[S.tbl[event.session_id]].status = "ended"]
    ELSE S

\* C8 mutant: the count is overwritten instead of incremented
OnTabSwitchOverwrite(S, event) ==
    IF event.session_id \in DOMAIN S.tbl
    THEN [S EXCEPT !.heap[S.tbl[event.session_id]].tab_switches = 1,
                   !.heap[S.tbl[event.session_id]].last_tab_switch = event.timestamp]
    ELSE S

OnTabSwitch(S, event) ==
    IF event.session_id \in DOMAIN S.tbl
    THEN [S EXCEPT !.heap[S.tbl[event.session_id]].tab_switches = @ + 1,
                   !.heap[S.tbl[event.session_id]].last_tab_switch = event.timestamp]
    ELSE S

\* C6 mutant: the session_start event itself is not counted
CountEventAfterStart(S, event) ==
    IF event.session_id \in DOMAIN S.tbl /\ event.event_type # "session_start"
    THEN [S EXCEPT !.heap[S.tbl[event.session_id]].event_count = @ + 1]
    ELSE S

\* lines 275-277
CountEvent(S, event) ==
    IF event.session_id \in DOMAIN S.tbl
    THEN [S EXCEPT !.heap[S.tbl[event.session_id]].event_count = @ + 1]
    ELSE S

UpdateSessionState(S, event) ==
    CountEvent(
        CASE event.event_type = "session_start" -> OnSessionStart(S, event)
          [] event.event_type = "heartbeat"     -> OnHeartbeat(S, event)
          [] event.event_type = "session_end"   -> OnSessionEnd(S, event)
          [] event.event_type = "tab_switch"    -> OnTabSwitch(S, event)
          [] OTHER                              -> S,
        event)

\* ------------------------------------------------------------------------
\* analyze_security (lines 279-334) up to its first suspending await
\* ------------------------------------------------------------------------
\* _create_alert: alert_id is f"alert_{int(time.time())}_{session_id}"; the
\* description is kept as the name of the rule that wrote it
CreateAlert(event, level, rule, t) ==
    [alert_id       |-> <<t, event.session_id>>,
     user_id        |-> event.user_id,
     session_id     |-> event.session_id,
     security_level |-> level,
     event_type     |-> event.event_type,
     description    |-> rule,
     timestamp      |-> event.timestamp]

\* C2 mutant: the alert already fires when the count reaches the threshold
TabSwitchAlertsAtThreshold(event, session, t) ==
    IF /\ event.event_type = "tab_switch"
       /\ session.last_tab_switch # None
       /\ event.timestamp - session.last_tab_switch < TIME_WINDOW
       /\ session.tab_switches >= TAB_SWITCH_THRESHOLD
    THEN <<CreateAlert(event, "high", "tab_switch", t)>>
    ELSE <<>>

\* lines 289-298
TabSwitchAlerts(event, session, t) ==
    IF /\ event.event_type = "tab_switch"
       /\ session.last_tab_switch # None
       /\ event.timestamp - session.last_tab_switch < TIME_WINDOW
       /\ session.tab_switches > TAB_SWITCH_THRESHOLD
    THEN <<CreateAlert(event, "high", "tab_switch", t)>>
    ELSE <<>>

\* lines 300-306
InactivityAlerts(event, t) ==
    IF event.event_type = "inactivity" /\ event.duration > INACTIVITY_THRESHOLD
    THEN <<CreateAlert(event, "medium", "inactivity", t)>>
    ELSE <<>>

\* C3 mutant: the timeout is checked on heartbeat events only
HeartbeatAlertsOnHeartbeat(event, session, t) ==
    IF event.event_type = "heartbeat" /\ t - session.last_heartbeat > HEARTBEAT_TIMEOUT
    THEN <<CreateAlert(event, "critical", "heartbeat", t)>>
    ELSE <<>>

\* lines 308-315
HeartbeatAlerts(event, session, t) ==
    IF t - session.last_heartbeat > HEARTBEAT_TIMEOUT
    THEN <<CreateAlert(event, "critical", "heartbeat", t)>>
    ELSE <<>>

\* C19 mutant: the converted score is returned without the clamp
CalculateMlRiskScoreUnclamped(outcome) ==
    IF outcome.raised
    THEN 0
    ELSE 10 - (outcome.score + 5)

\* _calculate_ml_risk_score: 1 - (score + 0.5) clamped to [0, 1]; 0.0 when
\* the call raises
CalculateMlRiskScore(outcome) ==
    IF outcome.raised
    THEN 0
    ELSE Max(0, Min(10, 10 - (outcome.score + 5)))

\* lines 317-326
MlAlerts(event, risk, t) ==
    IF risk > SUSPICIOUS_SCORE_THRESHOLD
    THEN <<CreateAlert(event, "high", "ml", t)>>
    ELSE <<>>

\* the alerts of one event and the heap after the scorer's write, for the
\* table S, at clock time t, when the scorer (if any) does `outcome`
AnalyzeSecurity(S, model, event, t, outcome) ==
    IF event.session_id \notin DOMAIN S.tbl
    THEN [heap |-> S.heap, session |-> None, alerts |-> <<>>]
    ELSE LET ref     == S.tbl[event.session_id]
             session == S.heap[ref]
             rules   == TabSwitchAlerts(event, session, t)
                            \o InactivityAlerts(event, t)
                            \o HeartbeatAlerts(event, session, t)
             risk    == CalculateMlRiskScore(outcome)
         IN  IF model = "none"
             THEN [heap |-> S.heap, session |-> ref, alerts |-> rules]
             ELSE [heap    |-> [S.heap EXCEPT ![ref].risk_score = risk],
                   session |-> ref,
                   alerts  |-> rules \o MlAlerts(event, risk, t)]

\* lines 332-334, on the dict object the coroutine holds
ApplyRiskFloor(hp, ref) ==
    [hp EXCEPT ![ref].risk_score = Max(@, RISK_FLOOR)]

\* ------------------------------------------------------------------------
\* cleanup_expired_sessions (lines 422-437)
\* ------------------------------------------------------------------------
\* C18 mutant: the age of the session is taken instead of the age of its
\* last heartbeat
IsExpiredByStart(session_data, current_time) ==
    IF session_data.status = "ended"
    THEN TRUE
    ELSE current_time - session_data.start_time > EXPIRY_SECONDS

\* C7 mutant: a heartbeat exactly 300 s old already expires
IsExpiredAtLimit(session_data, current_time) ==
    IF session_data.status = "ended"
    THEN TRUE
    ELSE current_time - session_data.last_heartbeat >= EXPIRY_SECONDS

\* lines 428-433: the test that puts a session on the expired list
IsExpired(session_data, current_time) ==
    IF session_data.status = "ended"
    THEN TRUE
    ELSE current_time - session_data.last_heartbeat > EXPIRY_SECONDS

ExpiredSessions(tbl, hp, current_time) ==
    {sid \in DOMAIN tbl : IsExpired(hp[tbl[sid]], current_time)}

\* ------------------------------------------------------------------------
\* State
\* ------------------------------------------------------------------------
EmptyMap == [x \in {} |-> None]

\* dict objects still referenced: by the table, by a coroutine suspended in
\* analyze_security (its local `session`), or by get_all_sessions suspended
\* in get_session_alerts (its loop variable session_data)
Referenced(tbl, fl, ls) ==
    Range(tbl) \cup {p.session : p \in {q \in fl : q.pc = "store_alert"}}
               \cup (IF ls.pc = "query" THEN {ls.session_data} ELSE {})

\* `last` names the step that led to the current state: which code ran
\* (step), for which event, the alerts analyze_security created in it, the
\* session ids a sweep deleted, the calls to MongoDB, Redis and the scorer
\* the step started (calls) and those of them that raised (failed), what the
\* scorer did and the margin it returned, whether an error ended the processing of the event (error),
\* and the reply of receive_event when the step ended process_event
NoOp ==
    [step |-> "none", seq |-> 0, user_id |-> "", session_id |-> "",
     event_type |-> "", timestamp |-> 0, found |-> FALSE, finished |-> FALSE,
     alerts |-> <<>>, removed |-> {}, calls |-> {}, failed |-> {},
     scorer |-> "none", score |-> 0, error |-> FALSE, response |-> "none",
     sessions |-> <<>>, present |-> {}]

Step(name) == [NoOp EXCEPT !.step = name]

EventStep(name, p, found, finished, alerts) ==
    [NoOp EXCEPT !.step = name, !.seq = p.seq, !.user_id = p.user_id,
                 !.session_id = p.session_id, !.event_type = p.event_type,
                 !.timestamp = p.timestamp, !.found = found,
                 !.finished = finished, !.alerts = alerts,
                 !.response = IF finished
                              THEN ReceiveEvent(p.user_id, p.session_id,
                                                p.event_type, FALSE)
                              ELSE "none"]

\* the calls of a step that raised, out of those it made
Failed(calls, io) ==
    {c \in calls : \/ c \in {"insert_event", "insert_alert"} /\ ~io.insert
                   \/ c = "publish" /\ ~io.publish}

\* ------------------------------------------------------------------------
\* get_all_sessions (lines 174-189) and the dict iterator it runs on
\* ------------------------------------------------------------------------
\* no call under way; n calls were made so far
Idle(n) ==
    [pc |-> "idle", n |-> n, slots |-> <<>>, pos |-> 0, used |-> 0, len |-> 0,
     key |-> "", session_data |-> None, present |-> {}, sessions |-> <<>>]

\* line 178, self.active_sessions.items(): the iterator over the entries of
\* the dict in insertion order (slots), with the size of the dict (used) and
\* the number of items still to come (len) as they are at its creation;
\* present is the set of ids in the table at the call and not deleted since
NewIterator(n, keys) ==
    [Idle(n) EXCEPT !.slots = [i \in DOMAIN keys |-> [key |-> keys[i], live |-> TRUE]],
                    !.used = Len(keys), !.len = Len(keys),
                    !.present = Range(keys)]

\* an assignment to a new key appends an entry to the dict the iterator
\* runs on; an assignment to an existing key keeps its entry
SeesInsert(ls, tbl0, tbl1) ==
    IF ls.pc # "query"
    THEN ls
    ELSE LET added == DOMAIN tbl1 \ DOMAIN tbl0
         IN  IF added = {}
             THEN ls
             ELSE [ls EXCEPT !.slots = Append(@, [key |-> CHOOSE k \in added : TRUE,
                                                  live |-> TRUE])]

\* del leaves the entry in place, emptied
SeesDelete(ls, expired) ==
    IF ls.pc # "query"
    THEN ls
    ELSE [ls EXCEPT !.slots = [i \in DOMAIN @ |->
                                  IF @[i].key \in expired
                                  THEN [@[i] EXCEPT !.live = FALSE] ELSE @[i]],
                    !.present = @ \ expired]

\* the first entry after position pos that is not emptied, 0 if none
NextLive(slots, pos) ==
    LET live == {i \in DOMAIN slots : i > pos /\ slots[i].live}
    IN  IF live = {} THEN 0 ELSE CHOOSE i \in live : \A j \in live : i <= j

\* one next() of the iterator (CPython 3.8 and later): RuntimeError when the
\* size of the dict differs from the size at creation, or when an entry is
\* found after all expected items were delivered; otherwise the next entry
\* with the value the table holds for it, or the end of the iteration
DictIterNext(ls, tbl) ==
    LET i == NextLive(ls.slots, ls.pos)
    IN  IF Cardinality(DOMAIN tbl) # ls.used
        THEN [outcome |-> "error", ls |-> ls]
        ELSE IF i = 0
        THEN [outcome |-> "stop", ls |-> ls]
        ELSE IF ls.len = 0
        THEN [outcome |-> "error", ls |-> ls]
        ELSE [outcome |-> "item",
              ls |-> [ls EXCEPT !.pc = "query", !.pos = i, !.len = @ - 1,
                                !.key = ls.slots[i].key,
                                !.session_data = tbl[ls.slots[i].key]]]

\* lines 180-188: the entry of one session, read from the dict object the
\* loop variable refers to (alert_count, read from MongoDB, is left out)
SessionEntry(ls, hp) ==
    [session_id     |-> ls.key,
     user_id        |-> hp[ls.session_data].user_id,
     status         |-> hp[ls.session_data].status,
     start_time     |-> hp[ls.session_data].start_time,
     last_heartbeat |-> hp[ls.session_data].last_heartbeat,
     risk_score     |-> hp[ls.session_data].risk_score]

\* the keys of seq that are not in S, in the order of seq
Without(seq, S) ==
    LET Keep(x) == x \notin S
    IN  SelectSeq(seq, Keep)

Init(models) ==
    /\ now = 0
    /\ ml_model \in models
    /\ active_sessions = EmptyMap
    /\ heap = EmptyMap
    /\ inflight = {}
    /\ nextSeq = 1
    /\ history = EmptyMap
    /\ submitted = EmptyMap
    /\ last = NoOp
    /\ order = <<>>
    /\ listing = Idle(0)

\* ------------------------------------------------------------------------
\* Actions
\* ------------------------------------------------------------------------
\* the clock moves on to a later instant of the explored ones
Tick(times) ==
    /\ \E t \in times : t > now /\ now' = t
    /\ last' = Step("tick")
    /\ UNCHANGED <<ml_model, active_sessions, heap, inflight, nextSeq, history,
                   submitted, order, listing>>

\* the events, and the tab_switch events among them, submitted for an id
Submitted(session_id) ==
    IF session_id \in DOMAIN submitted
    THEN submitted[session_id]
    ELSE [events |-> 0, tabs |-> 0]

\* process_event, lines 195-211, for one raw event: when the event is built
\* it is stamped and the coroutine suspends in store_event; when building it
\* raises, the exception is caught at line 222 and process_event ends
ProcessEvent(sc, user_id, session_id, event_type, duration) ==
    LET p == [seq |-> nextSeq, user_id |-> user_id, session_id |-> session_id,
              event_type |-> event_type, timestamp |-> now, duration |-> duration,
              pc |-> "store_event", session |-> None, alerts |-> <<>>, k |-> 0]
    IN  /\ nextSeq <= sc.maxEvents
        /\ Cardinality(inflight) < sc.maxInFlight
        /\ nextSeq' = nextSeq + 1
        /\ IF Constructs(user_id, session_id, event_type)
           THEN /\ inflight' = inflight \cup {p}
                /\ submitted' =
                       Put(submitted, session_id,
                           [events |-> Submitted(session_id).events + 1,
                            tabs   |-> Submitted(session_id).tabs
                                         + IF event_type = "tab_switch" THEN 1 ELSE 0])
                /\ last' = [EventStep("submit", p, FALSE, FALSE, <<>>)
                               EXCEPT !.calls = {"insert_event"}]
           ELSE /\ last' = [EventStep("reject", p, FALSE, TRUE, <<>>)
                               EXCEPT !.error = TRUE]
                /\ UNCHANGED <<inflight, submitted>>
        /\ UNCHANGED <<now, ml_model, active_sessions, heap, history, order, listing>>

\* the events applied to each dict object: the time stamps of its tab_switch
\* events in the order applied, and the number of events applied
Record(hist, S0, S1, event) ==
    IF event.session_id \notin DOMAIN S1.tbl
    THEN hist
    ELSE LET ref == S1.tbl[event.session_id]
         IN  IF event.event_type = "session_start"
             THEN Put(hist, ref, [tabs |-> <<>>, applied |-> 1])
             ELSE [hist EXCEPT
                     ![ref].applied = @ + 1,
                     ![ref].tabs = IF event.event_type = "tab_switch"
                                   THEN Append(@, event.timestamp) ELSE @]

\* process_event, lines 211-220, from the return of store_event:
\* update_session_state, then analyze_security up to the first store_alert,
\* and when no alert fired, on through publish_event to the end
StoreEventReturns(p, outcome, io) ==
    /\ p \in inflight
    /\ p.pc = "store_event"
    /\ IF StoreEventRaises(io.insert)
       THEN /\ inflight' = inflight \ {p}
            /\ last' = [EventStep("abort", p, FALSE, TRUE, <<>>)
                           EXCEPT !.failed = {"insert_event"}, !.error = TRUE]
            /\ UNCHANGED <<active_sessions, heap, history, order, listing>>
       ELSE LET S0 == [tbl |-> active_sessions, heap |-> heap]
                S1 == UpdateSessionState(S0, p)
                A  == AnalyzeSecurity(S1, ml_model, p, now, outcome)
                fl == IF A.alerts = <<>>
                      THEN inflight \ {p}
                      ELSE (inflight \ {p}) \cup
                             {[p EXCEPT !.pc = "store_alert", !.session = A.session,
                                        !.alerts = A.alerts, !.k = 1]}
                scored == A.session # None /\ ml_model # "none"
                calls  == (IF scored THEN {"score"} ELSE {})
                              \cup (IF A.alerts = <<>> THEN {"publish"}
                                                       ELSE {"insert_alert"})
                ls == SeesInsert(listing, S0.tbl, S1.tbl)
            IN  /\ active_sessions' = S1.tbl
                /\ inflight' = fl
                /\ heap' = Restrict(A.heap, Referenced(S1.tbl, fl, ls))
                /\ history' = Restrict(Record(history, S0, S1, p),
                                       Referenced(S1.tbl, fl, ls))
                /\ order' = IF p.session_id \in DOMAIN S1.tbl \ DOMAIN S0.tbl
                            THEN Append(order, p.session_id) ELSE order
                /\ listing' = ls
                /\ last' = [EventStep("analyze", p, A.session # None,
                                      A.alerts = <<>>, A.alerts)
                              EXCEPT !.calls = calls,
                                     !.failed = (IF io.insert THEN {}
                                                 ELSE {"insert_event"})
                                                  \cup Failed({"publish"} \cap calls, io),
                                     !.scorer = IF ~scored THEN "none"
                                                ELSE IF outcome.raised THEN "raised"
                                                ELSE "returned",
                                     !.score = IF scored /\ ~outcome.raised
                                               THEN outcome.score ELSE 0,
                                     !.error = /\ A.alerts = <<>>
                                               /\ PublishEventRaises(io.publish)]
    /\ UNCHANGED <<now, ml_model, nextSeq, submitted>>

\* analyze_security, lines 329-334, from the return of one store_alert: on
\* to the next alert, or past the last one to the risk floor, and through
\* publish_event to the end of process_event
StoreAlertReturns(p, io) ==
    /\ p \in inflight
    /\ p.pc = "store_alert"
    /\ LET fl == inflight \ {p}
       IN  IF StoreAlertRaises(io.insert)
           THEN /\ inflight' = fl
                /\ heap' = Restrict(heap, Referenced(active_sessions, fl, listing))
                /\ history' = Restrict(history,
                                       Referenced(active_sessions, fl, listing))
                /\ last' = [EventStep("abort", p, TRUE, TRUE, p.alerts)
                               EXCEPT !.failed = {"insert_alert"}, !.error = TRUE]
           ELSE IF p.k < Len(p.alerts)
           THEN /\ inflight' = fl \cup {[p EXCEPT !.k = @ + 1]}
                /\ last' = [EventStep("store_alert", p, TRUE, FALSE, <<>>)
                               EXCEPT !.calls = {"insert_alert"},
                                      !.failed = IF io.insert THEN {}
                                                 ELSE {"insert_alert"}]
                /\ UNCHANGED <<heap, history>>
           ELSE /\ inflight' = fl
                /\ heap' = Restrict(ApplyRiskFloor(heap, p.session),
                                    Referenced(active_sessions, fl, listing))
                /\ history' = Restrict(history,
                                       Referenced(active_sessions, fl, listing))
                /\ last' = [EventStep("floor", p, TRUE, TRUE, p.alerts)
                               EXCEPT !.calls = {"publish"},
                                      !.failed = (IF io.insert THEN {}
                                                  ELSE {"insert_alert"})
                                                   \cup Failed({"publish"}, io),
                                      !.error = PublishEventRaises(io.publish)]
    /\ UNCHANGED <<now, ml_model, active_sessions, nextSeq, submitted, order, listing>>

\* one sweep of the reaper (start_cleanup_task calls it every 60 seconds)
CleanupExpiredSessions ==
    LET expired == ExpiredSessions(active_sessions, heap, now)
        tbl     == Restrict(active_sessions, DOMAIN active_sessions \ expired)
        ls      == SeesDelete(listing, expired)
    IN  /\ DOMAIN active_sessions # {}
        /\ active_sessions' = tbl
        /\ heap' = Restrict(heap, Referenced(tbl, inflight, ls))
        /\ history' = Restrict(history, Referenced(tbl, inflight, ls))
        /\ order' = Without(order, expired)
        /\ listing' = ls
        /\ last' = [Step("sweep") EXCEPT !.removed = expired]
        /\ UNCHANGED <<now, ml_model, inflight, nextSeq, submitted>>

\* get_all_sessions, lines 175-179: the list is created, the iteration over
\* the table starts, and with a first session at hand the coroutine
\* suspends in get_session_alerts; an empty table is answered at once
GetAllSessions ==
    /\ listing.pc = "idle"
    /\ listing.n < MaxListings
    /\ LET r == DictIterNext(NewIterator(listing.n + 1, order), active_sessions)
       IN  IF r.outcome = "item"
           THEN /\ listing' = r.ls
                /\ last' = Step("list")
           ELSE /\ listing' = Idle(listing.n + 1)
                /\ last' = Step("listed")
    /\ UNCHANGED <<now, ml_model, active_sessions, heap, inflight, nextSeq, history,
                   submitted, order>>

\* get_all_sessions, lines 179-189, from the return of get_session_alerts
\* (which returns a list also when its query fails, lines 401-403): the
\* entry is appended, and the iteration goes on to the next session and
\* suspends again, or ends and the list is returned, or raises RuntimeError
GetSessionAlertsReturns ==
    /\ listing.pc = "query"
    /\ LET ls == [listing EXCEPT !.sessions = Append(@, SessionEntry(listing, heap))]
           r  == DictIterNext(ls, active_sessions)
           nx == IF r.outcome = "item" THEN r.ls ELSE Idle(listing.n)
       IN  /\ listing' = nx
           /\ heap' = Restrict(heap, Referenced(active_sessions, inflight, nx))
           /\ history' = Restrict(history, Referenced(active_sessions, inflight, nx))
           /\ last' = CASE r.outcome = "item"  -> Step("list")
                        [] r.outcome = "stop"  ->
                              [Step("listed") EXCEPT !.sessions = ls.sessions,
                                                     !.present = ls.present]
                        [] r.outcome = "error" ->
                              [Step("list_error") EXCEPT !.present = ls.present,
                                                         !.error = TRUE]
    /\ UNCHANGED <<now, ml_model, active_sessions, inflight, nextSeq, submitted, order>>

\* ------------------------------------------------------------------------
\* Specifications
\* ------------------------------------------------------------------------
\* metadata.duration as the inactivity rule reads it: 0 when absent
DurationsOf(event_type) ==
    IF event_type = "inactivity" THEN Durations ELSE {0}

Next(sc) ==
    \/ Tick(sc.times)
    \/ \E u \in sc.users, sid \in sc.sessions, ty \in sc.types :
           \E d \in DurationsOf(ty) : ProcessEvent(sc, u, sid, ty, d)
    \/ \E p \in inflight, outcome \in sc.outcomes, io \in sc.io :
           StoreEventReturns(p, outcome, io)
    \/ \E p \in inflight, io \in sc.io : StoreAlertReturns(p, io)
    \/ CleanupExpiredSessions

\* Events delivered one at a time (each may wait in store_event while the
\* clock moves on), every event type, with and without a scorer.
SeqScope ==
    [times |-> {0, 9, 11, 20}, sessions |-> {"s1"}, types |-> EventType,
     maxEvents |-> MaxEvents, maxInFlight |-> 1,
     users |-> Users, outcomes |-> ScorerOutcomes, io |-> AllOk]

Spec == Init({"none", "model"}) /\ [][Next(SeqScope)]_vars

\* Concurrent process_event executions on one session, no scorer.
ConcScope ==
    [times |-> {0, 11}, sessions |-> {"s1"},
     types |-> {"session_start", "session_end", "heartbeat", "tab_switch", "inactivity"},
     maxEvents |-> ConcMaxEvents, maxInFlight |-> MaxInFlight,
     users |-> Users, outcomes |-> ScorerOutcomes, io |-> AllOk]

SpecConc == Init({"none"}) /\ [][Next(ConcScope)]_vars

\* The tab-switch scenarios: events one at a time at t = 0, 5, 10, 15, 100.
TabScope ==
    [times |-> {0, 5, 10, 15, 100}, sessions |-> {"s1"},
     types |-> {"session_start", "heartbeat", "tab_switch"},
     maxEvents |-> TabMaxEvents, maxInFlight |-> 1,
     users |-> Users, outcomes |-> TabOutcomes, io |-> AllOk]

SpecTab == Init({"none", "model"}) /\ [][Next(TabScope)]_vars

\* Two sessions and the reaper: heartbeats 299, 300 and 301 s old.
ReapScope ==
    [times |-> {0, 2, 300, 301}, sessions |-> {"s1", "s2"}, types |-> EventType,
     maxEvents |-> ReapMaxEvents, maxInFlight |-> 1,
     users |-> Users, outcomes |-> ScorerOutcomes, io |-> AllOk]

SpecReap == Init({"none"}) /\ [][Next(ReapScope)]_vars

\* Raw events as they arrive: unknown event types, absent keys and empty
\* identifiers next to well-formed events, one at a time, no scorer.
RawScope ==
    [times |-> {0, 11}, sessions |-> {"s1", "", Missing},
     types |-> {"session_start", "heartbeat", "tab_switch", "session_end",
                "bogus", Missing},
     maxEvents |-> RawMaxEvents, maxInFlight |-> 1,
     users |-> {"u1", "", Missing}, outcomes |-> ScorerOutcomes, io |-> AllOk]

SpecRaw == Init({"none"}) /\ [][Next(RawScope)]_vars

\* MongoDB and Redis may fail at every call: events one at a time, no scorer.
FailScope ==
    [times |-> {0, 11}, sessions |-> {"s1"},
     types |-> {"session_start", "session_end", "heartbeat", "tab_switch", "inactivity"},
     maxEvents |-> FailMaxEvents, maxInFlight |-> 1,
     users |-> Users, outcomes |-> ScorerOutcomes, io |-> AnyIo]

SpecFail == Init({"none"}) /\ [][Next(FailScope)]_vars

\* The reaper racing concurrent process_event executions: a session whose
\* heartbeat is 299 or 301 s old while events for it are in flight.
RaceScope ==
    [times |-> {0, 2, 301}, sessions |-> {"s1"},
     types |-> {"session_start", "heartbeat", "session_end"},
     maxEvents |-> RaceMaxEvents, maxInFlight |-> MaxInFlight,
     users |-> Users, outcomes |-> ScorerOutcomes, io |-> AllOk]

SpecRace == Init({"none"}) /\ [][Next(RaceScope)]_vars

\* A scorer that returns any margin or raises: events one at a time.
ScoreScope ==
    [times |-> {0, 11}, sessions |-> {"s1"},
     types |-> {"session_start", "heartbeat", "inactivity"},
     maxEvents |-> ScoreMaxEvents, maxInFlight |-> 1,
     users |-> Users, outcomes |-> WideOutcomes, io |-> AllOk]

SpecScore == Init({"model"}) /\ [][Next(ScoreScope)]_vars

\* the event pipeline and the reaper next to calls of get_all_sessions
NextList(sc) ==
    \/ Next(sc)
    \/ GetAllSessions
    \/ GetSessionAlertsReturns

\* Listing the sessions while sessions start and end and the reaper sweeps.
ListScope ==
    [times |-> {0, 301}, sessions |-> {"s1", "s2"},
     types |-> {"session_start", "session_end"},
     maxEvents |-> ListMaxEvents, maxInFlight |-> 1,
     users |-> Users, outcomes |-> ScorerOutcomes, io |-> AllOk]

SpecList == Init({"none"}) /\ [][NextList(ListScope)]_vars

\* ------------------------------------------------------------------------
\* Properties
\* ------------------------------------------------------------------------
\* the dict stored under a session id
Session(sid) == heap[active_sessions[sid]]

\* the alerts of a step written by one rule
AlertsOf(l, rule) == {i \in DOMAIN l.alerts : l.alerts[i].description = rule}

AlertsBy(rule) == AlertsOf(last, rule)

\* the heartbeat of the session of the last step is not overdue
FreshHeartbeat ==
    now - Session(last.session_id).last_heartbeat <= HEARTBEAT_TIMEOUT

\* the last step ran update_session_state and analyze_security for an event
\* that found its session
Analyzed == last.step = "analyze" /\ last.found

\* the tab_switch time stamps of a history that lie in the window ending at t
InWindow(tabs, t) == {i \in DOMAIN tabs : t - tabs[i] < TIME_WINDOW}

IsPrefix(a, b) == Len(a) <= Len(b) /\ \A i \in DOMAIN a : a[i] = b[i]

\* C1 (as claimed): with a fresh heartbeat and no scorer, a tab_switch event
\* fires the tab-switch alert only if more than 3 tab_switch events of its
\* session, the current one included, lie in the 60 seconds that end at the
\* event; so after tab switches at t = 0, 5, 10 a fourth one at t = 100
\* fires no tab-switch alert.
TabAlertOnlyWithinWindow ==
    (/\ Analyzed
     /\ last.event_type = "tab_switch"
     /\ ml_model = "none"
     /\ FreshHeartbeat
     /\ AlertsBy("tab_switch") # {})
        => Cardinality(InWindow(history[active_sessions[last.session_id]].tabs,
                                last.timestamp)) > TAB_SWITCH_THRESHOLD

\* C2: for a session started at t = 0, tab_switch events at t = 0, 5, 10, 15
\* fire no tab-switch alert for the first three and exactly one tab-switch
\* alert, of severity high, for the fourth; while the heartbeat is fresh and
\* no scorer flags the event it is the only alert of that event.
BurstTimes == <<0, 5, 10, 15>>

TabSwitchBurst ==
    (/\ Analyzed
     /\ last.event_type = "tab_switch"
     /\ Session(last.session_id).start_time = 0
     /\ IsPrefix(history[active_sessions[last.session_id]].tabs, BurstTimes))
        => LET n == Len(history[active_sessions[last.session_id]].tabs)
           IN  /\ n <= 3 => AlertsBy("tab_switch") = {}
               /\ n = 4 =>
                    /\ Cardinality(AlertsBy("tab_switch")) = 1
                    /\ \A i \in AlertsBy("tab_switch") :
                          last.alerts[i].security_level = "high"
                    /\ (FreshHeartbeat /\ AlertsBy("ml") = {})
                          => Len(last.alerts) = 1

\* C2 witness: the fourth tab switch of the burst, analyzed at t = 15 with a
\* fresh heartbeat, has fired its one alert.
TabSwitchBurstReached ==
    /\ Analyzed
    /\ last.event_type = "tab_switch"
    /\ now = 15
    /\ Session(last.session_id).start_time = 0
    /\ history[active_sessions[last.session_id]].tabs = BurstTimes
    /\ FreshHeartbeat
    /\ Len(last.alerts) = 1
    /\ last.alerts[1].security_level = "high"

\* the step about to be taken runs update_session_state and
\* analyze_security for an event whose session id is in the table
AnalyzesKnown ==
    last'.step = "analyze" /\ last'.session_id \in DOMAIN active_sessions

Critical(l) == AlertsOf(l, "heartbeat")

\* C3 (as claimed): for a session in the table with last_heartbeat t0, an
\* event of any type analyzed at t0 + 9 fires no heartbeat-timeout alert and
\* an event of any type analyzed at t0 + 11 fires exactly one.
HeartbeatTimeoutAnyType ==
    [][AnalyzesKnown =>
         LET t0 == Session(last'.session_id).last_heartbeat
         IN  /\ now - t0 = 9 => Critical(last') = {}
             /\ now - t0 = 11 => Cardinality(Critical(last')) = 1]_vars

\* C3 (amended): the same for every event type except heartbeat and
\* session_start, and there the alert fires exactly when more than 10 s have
\* passed since t0; a heartbeat or session_start event first sets
\* last_heartbeat to its own time stamp and fires the alert exactly when that
\* time stamp is more than 10 s old at the analysis.  Every heartbeat alert
\* is critical.
HeartbeatTimeout ==
    [][AnalyzesKnown =>
         LET t0 == IF last'.event_type \in {"heartbeat", "session_start"}
                   THEN last'.timestamp
                   ELSE Session(last'.session_id).last_heartbeat
         IN  /\ now - t0 = 9 => Critical(last') = {}
             /\ now - t0 = 11 => Cardinality(Critical(last')) = 1
             /\ now - t0 > HEARTBEAT_TIMEOUT <=> Critical(last') # {}
             /\ \A i \in Critical(last') :
                   last'.alerts[i].security_level = "critical"]_vars

\* C3 witness: an event that is neither heartbeat nor session_start, analyzed
\* 11 s after the last heartbeat, has fired one critical alert.
HeartbeatTimeoutReached ==
    /\ Analyzed
    /\ last.event_type = "copy_paste"
    /\ now - Session(last.session_id).last_heartbeat = 11
    /\ Cardinality(Critical(last)) = 1
    /\ \A i \in Critical(last) : last.alerts[i].security_level = "critical"

\* C4 (as claimed): when the processing of an event that fired an alert has
\* finished, the risk_score stored under its session id is at least 0.8.
RiskFloorInTable ==
    (/\ last.finished
     /\ last.alerts # <<>>
     /\ last.session_id \in DOMAIN active_sessions)
        => Session(last.session_id).risk_score >= RISK_FLOOR

\* C5: an event other than session_start whose session id is not in the
\* table runs to the end of process_event in one step, fires no alert and
\* leaves the table and every session dict as they were.
UnknownSessionIgnored ==
    [][(/\ last'.step = "analyze"
        /\ last'.event_type # "session_start"
        /\ last'.session_id \notin DOMAIN active_sessions)
          => /\ active_sessions' = active_sessions
             /\ heap' = heap
             /\ last'.alerts = <<>>
             /\ last'.finished
             /\ \A p \in inflight' : p.seq # last'.seq]_vars

\* C5 witness: a heartbeat for the unknown id s1 has been processed while
\* the session s2 is in the table.
UnknownSessionReached ==
    /\ last.step = "analyze"
    /\ last.event_type = "heartbeat"
    /\ last.session_id = "s1"
    /\ ~last.found
    /\ DOMAIN active_sessions = {"s2"}

ReaperSweep ==
    [][last'.step = "sweep" =>
         /\ DOMAIN active_sessions' \subseteq DOMAIN active_sessions
         /\ \A sid \in DOMAIN active_sessions :
              /\ sid \notin DOMAIN active_sessions'
                    <=> \/ Session(sid).status = "ended"
                        \/ now - Session(sid).last_heartbeat > 300
              /\ sid \in DOMAIN active_sessions'
                    => /\ active_sessions'[sid] = active_sessions[sid]
                       /\ heap'[active_sessions'[sid]] = Session(sid)]_vars

\* C7 witness: a sweep at t = 301, after two session_start events and
\* nothing else, has deleted the session whose heartbeat was 301 s old and
\* kept the active one whose heartbeat is 299 s old.
ReaperSweepReached ==
    /\ last.step = "sweep"
    /\ nextSeq = 3
    /\ now = 301
    /\ last.removed = {"s1"}
    /\ DOMAIN active_sessions = {"s2"}
    /\ Session("s2").status = "active"
    /\ now - Session("s2").last_heartbeat = 299

\* C8: no update is lost.  The tab-switch count and the event count of every
\* session dict equal the numbers of tab_switch events and of events whose
\* state update ran on it; and once every event submitted for an id has
\* completed on the dict now stored under it, the counts are the numbers of
\* tab_switch events and of events submitted.
NoLostUpdates ==
    \A sid \in DOMAIN active_sessions :
        LET ref == active_sessions[sid]
        IN  /\ heap[ref].tab_switches = Len(history[ref].tabs)
            /\ heap[ref].event_count = history[ref].applied
            /\ (/\ \A p \in inflight : p.session_id # sid
                /\ history[ref].applied = Submitted(sid).events)
                  => /\ heap[ref].tab_switches = Submitted(sid).tabs
                     /\ heap[ref].event_count = Submitted(sid).events

\* C8 witness: two tab_switch events were in flight together (the one
\* stamped at t = 11 was applied before the one stamped at t = 0), both have
\* completed, and the session counts two tab switches and three events.
NoLostUpdatesReached ==
    /\ inflight = {}
    /\ "s1" \in DOMAIN active_sessions
    /\ history[active_sessions["s1"]].tabs = <<11, 0>>
    /\ Submitted("s1") = [events |-> 3, tabs |-> 2]
    /\ Session("s1").tab_switches = 2
    /\ Session("s1").event_count = 3

\* C9 (as claimed): the state update and analysis of the events of one
\* session run in the order in which the events arrived: no event is
\* analyzed while an event of the same session that arrived before it still
\* waits for its state update.
ArrivalOrderPreserved ==
    last.step = "analyze"
        => \A p \in inflight :
             (p.pc = "store_event" /\ p.session_id = last.session_id)
                => p.seq > last.seq

\* C10 (as claimed): once the status stored under a session id is ended, no
\* step sets the status stored under that id back to active.
EndedIsTerminal ==
    [][\A sid \in DOMAIN active_sessions \cap DOMAIN active_sessions' :
         Session(sid).status = "ended"
            => heap'[active_sessions'[sid]].status = "ended"]_vars

\* the step ran code of process_event for an event
OfEvent(l) == l.seq # 0

\* the raw event of the step has an event type outside the enum, or lacks a
\* required key
Malformed(l) ==
    l.event_type \notin EventType \/ Missing \in {l.user_id, l.session_id}

\* C11: a raw event whose event_type is not one of the ten enumerated values,
\* or that lacks a required field, changes no session-table entry, creates
\* no session, fires no alert, and hands nothing to persistence or
\* publication.
MalformedEventDropped ==
    [][(OfEvent(last') /\ Malformed(last'))
          => /\ UNCHANGED <<active_sessions, heap, inflight>>
             /\ last'.alerts = <<>>
             /\ last'.calls = {}]_vars

\* C11 witness: an event of an unknown type for an existing session has been
\* dropped.
MalformedEventDroppedReached ==
    /\ last.step = "reject"
    /\ last.event_type = "bogus"
    /\ last.session_id \in DOMAIN active_sessions

\* C12 (as claimed): a raw event whose user_id or session_id is the empty
\* string is rejected and performs no state mutation; in particular a
\* session_start event with an empty session_id creates no session-table
\* entry.
EmptyIdRejected ==
    [][(OfEvent(last') /\ "" \in {last'.user_id, last'.session_id})
          => /\ UNCHANGED <<active_sessions, heap>>
             /\ "" \notin DOMAIN active_sessions'
             /\ last'.step = "reject"]_vars

\* C13 (as claimed): an event with an unknown event_type is answered with an
\* error; the caller is never told that it was processed.
UnknownTypeReportedAsError ==
    (/\ OfEvent(last)
     /\ last.finished
     /\ last.event_type \notin EventType
     /\ last.event_type # Missing)
        => last.response = "error"

\* C14 (as claimed): when the scorer call fails the pipeline does not fail
\* and the scoring rule leaves risk_score as it was before the event, so a
\* stored risk_score is not lowered by an event whose scorer call fails.
FailedScorerKeepsRisk ==
    [][(/\ last'.step = "analyze"
        /\ last'.scorer = "raised"
        /\ last'.event_type # "session_start"
        /\ last'.session_id \in DOMAIN active_sessions)
          => /\ ~last'.error
             /\ heap'[active_sessions'[last'.session_id]].risk_score
                    = Session(last'.session_id).risk_score]_vars

\* C15: a failure of persisting the event, persisting an alert or publishing
\* does not propagate and rolls nothing back: process_event goes on without
\* error, the session-state update of the event stays applied, and when
\* alerts fired the risk floor is still applied.
CollaboratorFailuresContained ==
    [][(OfEvent(last') /\ last'.failed # {})
          => LET sid == last'.session_id
                 ty  == last'.event_type
             IN  /\ ~last'.error
                 /\ last'.step \in {"analyze", "store_alert", "floor"}
                 /\ ~last'.finished => \E p \in inflight' : p.seq = last'.seq
                 /\ (last'.step = "analyze" /\ ty = "session_start")
                       => /\ sid \in DOMAIN active_sessions'
                          /\ heap'[active_sessions'[sid]].event_count = 1
                 /\ (/\ last'.step = "analyze"
                     /\ ty # "session_start"
                     /\ sid \in DOMAIN active_sessions)
                       => LET old == Session(sid)
                              new == heap'[active_sessions'[sid]]
                          IN  /\ new.event_count = old.event_count + 1
                              /\ ty = "heartbeat"
                                    => new.last_heartbeat = last'.timestamp
                              /\ ty = "session_end" => new.status = "ended"
                              /\ ty = "tab_switch"
                                    => new.tab_switches = old.tab_switches + 1
                 /\ last'.step = "floor"
                       => \A p \in inflight :
                             (p.seq = last'.seq /\ p.session \in DOMAIN heap')
                                => heap'[p.session].risk_score >= RISK_FLOOR]_vars

\* C15 witness: the last alert of an event could not be stored and the event
\* could not be published, and the session carries the risk floor.
CollaboratorFailuresReached ==
    /\ last.step = "floor"
    /\ last.failed = {"insert_alert", "publish"}
    /\ last.session_id \in DOMAIN active_sessions
    /\ Session(last.session_id).risk_score >= RISK_FLOOR

\* C16 (as claimed): any two distinct alerts have different alert_id values,
\* two alerts fired by the same event included.
AlertIdsUnique ==
    \A i, j \in DOMAIN last.alerts :
        i # j => last.alerts[i].alert_id # last.alerts[j].alert_id

\* C17: no step of the event pipeline removes a key from the session table;
\* after a session_end event the entry is still there with status = ended; a
\* session id leaves the table only in a sweep of the reaper.
OnlyReaperRemoves ==
    [][/\ last'.step # "sweep"
          => DOMAIN active_sessions \subseteq DOMAIN active_sessions'
       /\ (/\ last'.step = "analyze"
           /\ last'.event_type = "session_end"
           /\ last'.session_id \in DOMAIN active_sessions)
             => /\ last'.session_id \in DOMAIN active_sessions'
                /\ heap'[active_sessions'[last'.session_id]].status = "ended"]_vars

\* C17 witness: a session_end event was applied to an existing session, with
\* another session in the table, and the entry is there with status = ended.
OnlyReaperRemovesReached ==
    /\ Analyzed
    /\ last.event_type = "session_end"
    /\ last.session_id \in DOMAIN active_sessions
    /\ Session(last.session_id).status = "ended"
    /\ Cardinality(DOMAIN active_sessions) = 2

\* C18: in every interleaving of a sweep with concurrently processed events,
\* the sweep never deletes an entry that at the moment of deletion has
\* status = active and a last_heartbeat at most 300 seconds old.
ReaperRaceSafe ==
    [][\A sid \in DOMAIN active_sessions \ DOMAIN active_sessions' :
          ~(/\ Session(sid).status = "active"
            /\ now - Session(sid).last_heartbeat <= EXPIRY_SECONDS)]_vars

\* C18 witness: a sweep has deleted a session while a heartbeat event for
\* it, stamped before the sweep, was still waiting in store_event.
ReaperRaceSafeReached ==
    /\ last.step = "sweep"
    /\ last.removed # {}
    /\ \E p \in inflight : /\ p.session_id \in last.removed
                           /\ p.event_type = "heartbeat"
                           /\ p.pc = "store_event"

\* C19: risk_score of every session in the table is within [0, 1] in every
\* reachable state, whatever margin the scorer returns and when it fails.
RiskScoreInRange ==
    \A sid \in DOMAIN active_sessions :
        /\ Session(sid).risk_score >= 0
        /\ Session(sid).risk_score <= 10

\* C19 witness: the scorer returned a margin of -2.0, which converts to 2.5,
\* and the session holds the clamped score 1.0.
RiskScoreInRangeReached ==
    /\ Analyzed
    /\ last.scorer = "returned"
    /\ last.score = -20
    /\ Session(last.session_id).risk_score = 10

\* C20 (as claimed): the list-sessions operation completes without error and
\* returns an entry for every session that was in the table throughout the
\* call, whatever session_start events add entries and reaper sweeps remove
\* entries while it waits for its alert queries.
ListSessionsTolerant ==
    /\ last.step # "list_error"
    /\ last.step = "listed"
          => \A sid \in last.present :
                \E i \in DOMAIN last.sessions : last.sessions[i].session_id = sid

====
